---- MODULE Spec2Model ----
(***************************************************************************)
(* Model of toga's MultilineTextInput widget (core/src/toga/widgets/       *)
(* multilinetextinput.py) and of the MapView behaviour exercised by        *)
(* testbed/tests/widgets/test_mapview.py.                                  *)
(*                                                                         *)
(* The widget is a thin wrapper: every property reads and writes through   *)
(* to a platform backend (self._impl).  The widget code is modelled from   *)
(* the source; the backend, Widget.refresh, wrapped_handler, MapView and   *)
(* the probe are collaborators whose code is elsewhere and are modelled    *)
(* from their documented contract.                                         *)
(***************************************************************************)
EXTENDS Integers, Sequences, FiniteSets, TLC

VARIABLES
    constructed,   \* has MultilineTextInput.__init__ run to completion
    widget,        \* [impl, on_change, calls]: backend state, self._on_change,
                   \* and the collaborator calls made by the last operation
    lastOp,        \* the last operation applied to the text input, with its input
    map,           \* the MapView: [pins, native, attr]
    mock_calls,    \* the calls recorded by the on_select Mock
    selected,      \* the pin selected last on the native map
    mapOp,         \* the kind of the last operation applied to the MapView
    platform,      \* toga.platform.current_platform
    fpc,           \* where the `widget` fixture of test_mapview.py is
    now,           \* time(), in ticks of one poll interval (0.05 s)
    deadline,      \* the fixture's deadline, in ticks
    backlog,       \* widget._impl.backlog: "pending", "None", or "absent"
    ready,         \* when the backlog became None: "no", "in time", "late"
    gc_runs        \* the number of gc.collect() calls made by the fixture

textVars == <<constructed, widget, lastOp>>
mapVars == <<map, mock_calls, selected, mapOp>>
fixtureVars == <<platform, fpc, now, deadline, backlog, ready, gc_runs>>

----------------------------------------------------------------------------
(* Python objects that are assigned to the properties.                      *)

MaxInt == 12

PyNone == [t |-> "None"]
PyStr(s) == [t |-> "str", s |-> s]
PyInt(n) == [t |-> "int", n |-> n]
PyBool(b) == [t |-> "bool", b |-> b]

Strings == {"", "a", "None", "False", "two\nlines"}

\* zero, one and two digits, both signs
Ints == {-MaxInt, -1, 0, 7, MaxInt}

Objects ==
    {PyNone} \cup {PyStr(s) : s \in Strings}
             \cup {PyInt(n) : n \in Ints}
             \cup {PyBool(b) : b \in BOOLEAN}

Digit == <<"0", "1", "2", "3", "4", "5", "6", "7", "8", "9">>

RECURSIVE NatToStr(_)
NatToStr(n) ==
    IF n < 10 THEN Digit[n + 1]
    ELSE NatToStr(n \div 10) \o Digit[(n % 10) + 1]

\* Python's str(x)
str(x) ==
    CASE x.t = "None" -> "None"
      [] x.t = "str"  -> x.s
      [] x.t = "int"  -> IF x.n < 0 THEN "-" \o NatToStr(-x.n) ELSE NatToStr(x.n)
      [] x.t = "bool" -> IF x.b THEN "True" ELSE "False"

\* Python's bool(x)
bool(x) ==
    CASE x.t = "None" -> FALSE
      [] x.t = "str"  -> x.s # ""
      [] x.t = "int"  -> x.n # 0
      [] x.t = "bool" -> x.b

----------------------------------------------------------------------------
(* Collaborators of the widget.  Their code is in the platform backends    *)
(* and in toga.handlers / toga.widgets.base; they are modelled from the    *)
(* contract the widget relies on: the backend stores what it is given.     *)

Log(w, call) == [w EXCEPT !.calls = Append(@, call)]

impl_set_value(w, s) ==
    Log([w EXCEPT !.impl.value = s], [fn |-> "set_value", s |-> s])
impl_get_value(w) == w.impl.value

impl_set_placeholder(w, s) ==
    Log([w EXCEPT !.impl.placeholder = s], [fn |-> "set_placeholder", s |-> s])
impl_get_placeholder(w) == w.impl.placeholder

impl_set_readonly(w, b) ==
    Log([w EXCEPT !.impl.readonly = b], [fn |-> "set_readonly", b |-> b])
impl_get_readonly(w) == w.impl.readonly

impl_scroll_to_bottom(w) ==
    Log([w EXCEPT !.impl.scroll = "bottom"], [fn |-> "scroll_to_bottom"])
impl_scroll_to_top(w) ==
    Log([w EXCEPT !.impl.scroll = "top"], [fn |-> "scroll_to_top"])

\* Widget.refresh(): recomputes the layout; it touches no backend attribute.
refresh(w) == Log(w, [fn |-> "refresh"])

\* toga.handlers.wrapped_handler(interface, handler): wrapping calls nothing.
wrapped_handler(handler) == [wrapped |-> handler]

Handlers == {PyNone, [t |-> "fn", name |-> "on_change_1"],
                     [t |-> "fn", name |-> "on_change_2"]}

\* The text shown by the native widget: the placeholder stands in for an
\* empty value.
displayed(w) == IF w.impl.value = "" THEN w.impl.placeholder ELSE w.impl.value

----------------------------------------------------------------------------
(* MultilineTextInput: the property getters.                                *)

placeholder_get(w) == impl_get_placeholder(w)
enabled_get(w) == ~impl_get_readonly(w)
readonly_get(w) == impl_get_readonly(w)
value_get(w) == impl_get_value(w)
on_change_get(w) == w.on_change

(* MultilineTextInput: the property setters and methods, as functions from  *)
(* the widget's state and the assigned object to the widget's next state.   *)

\* "" if value is None else str(value)
\* (variant: the None case is not special-cased)
coerce_text_no_none(x) == str(x)

coerce_text(x) == IF x = PyNone THEN "" ELSE str(x)

\* (variant: the placeholder setter writes the value attribute)
placeholder_set_writes_value(w, x) == refresh(impl_set_value(w, coerce_text(x)))

placeholder_set(w, x) == refresh(impl_set_placeholder(w, coerce_text(x)))

\* (variant: the negation is dropped)
enabled_set_not_negated(w, x) == impl_set_readonly(w, bool(x))

enabled_set(w, x) == impl_set_readonly(w, ~bool(x))

readonly_set(w, x) == impl_set_readonly(w, bool(x))

\* (variant: a read-only widget ignores the assignment)
value_set_honours_readonly(w, x) ==
    IF impl_get_readonly(w) THEN refresh(w)
    ELSE refresh(impl_set_value(w, coerce_text(x)))

\* (variant: the setter notifies the change handler)
value_set_notifies(w, x) ==
    Log(refresh(impl_set_value(w, coerce_text(x))),
        [fn |-> "on_change", handler |-> w.on_change])

\* (variant: the layout is refreshed before the backend is told)
value_set_refresh_first(w, x) == impl_set_value(refresh(w), coerce_text(x))

value_set(w, x) == refresh(impl_set_value(w, coerce_text(x)))

\* (variant: clearing also drops the placeholder)
clear_drops_placeholder(w) == placeholder_set(value_set(w, PyStr("")), PyNone)

clear(w) == value_set(w, PyStr(""))

scroll_to_bottom(w) == impl_scroll_to_bottom(w)

scroll_to_top(w) == impl_scroll_to_top(w)

on_change_set(w, handler) == [w EXCEPT !.on_change = wrapped_handler(handler)]

\* __init__: the four assignments of lines 37-40, in order.
init(w, value, readonly, placeholder, on_change) ==
    on_change_set(
        placeholder_set(
            readonly_set(
                value_set(w, value),
                readonly),
            placeholder),
        on_change)

----------------------------------------------------------------------------
(* The state machine of one MultilineTextInput.                             *)

\* An operation starts with an empty call log.
Begin(w) == [w EXCEPT !.calls = <<>>]

\* The native widget as the backend factory leaves it, before __init__ has
\* assigned any property (line 34).
NativeTexts == {"", "native"}

TextIdle ==
    /\ constructed = FALSE
    /\ widget = [impl |-> [value |-> "", placeholder |-> "", readonly |-> FALSE,
                          scroll |-> "top"],
                 on_change |-> "unset",
                 calls |-> <<>>]
    /\ lastOp = [op |-> "create"]

TextInit ==
    /\ constructed = FALSE
    /\ \E v \in NativeTexts, p \in NativeTexts, r \in BOOLEAN :
         widget = [impl |-> [value |-> v, placeholder |-> p, readonly |-> r,
                             scroll |-> "top"],
                   on_change |-> "unset",
                   calls |-> <<>>]
    /\ lastOp = [op |-> "create"]

Construct ==
    /\ ~constructed
    /\ \E value \in Objects, readonly \in Objects, placeholder \in Objects,
          on_change \in Handlers :
         /\ widget' = init(Begin(widget), value, readonly, placeholder, on_change)
         /\ lastOp' = [op |-> "__init__", value |-> value, readonly |-> readonly,
                       placeholder |-> placeholder, on_change |-> on_change]
    /\ constructed' = TRUE
    /\ UNCHANGED <<mapVars, fixtureVars>>

SetValue ==
    /\ constructed
    /\ \E x \in Objects :
         /\ widget' = value_set(Begin(widget), x)
         /\ lastOp' = [op |-> "value", x |-> x]
    /\ UNCHANGED <<constructed, mapVars, fixtureVars>>

SetPlaceholder ==
    /\ constructed
    /\ \E x \in Objects :
         /\ widget' = placeholder_set(Begin(widget), x)
         /\ lastOp' = [op |-> "placeholder", x |-> x]
    /\ UNCHANGED <<constructed, mapVars, fixtureVars>>

SetReadonly ==
    /\ constructed
    /\ \E x \in Objects :
         /\ widget' = readonly_set(Begin(widget), x)
         /\ lastOp' = [op |-> "readonly", x |-> x]
    /\ UNCHANGED <<constructed, mapVars, fixtureVars>>

SetEnabled ==
    /\ constructed
    /\ \E x \in Objects :
         /\ widget' = enabled_set(Begin(widget), x)
         /\ lastOp' = [op |-> "enabled", x |-> x]
    /\ UNCHANGED <<constructed, mapVars, fixtureVars>>

SetOnChange ==
    /\ constructed
    /\ \E h \in Handlers :
         /\ widget' = on_change_set(Begin(widget), h)
         /\ lastOp' = [op |-> "on_change", h |-> h]
    /\ UNCHANGED <<constructed, mapVars, fixtureVars>>

Clear ==
    /\ constructed
    /\ widget' = clear(Begin(widget))
    /\ lastOp' = [op |-> "clear"]
    /\ UNCHANGED <<constructed, mapVars, fixtureVars>>

ScrollToBottom ==
    /\ constructed
    /\ widget' = scroll_to_bottom(Begin(widget))
    /\ lastOp' = [op |-> "scroll_to_bottom"]
    /\ UNCHANGED <<constructed, mapVars, fixtureVars>>

ScrollToTop ==
    /\ constructed
    /\ widget' = scroll_to_top(Begin(widget))
    /\ lastOp' = [op |-> "scroll_to_top"]
    /\ UNCHANGED <<constructed, mapVars, fixtureVars>>

\* The user types into the native widget: possible only while it is not
\* read-only; the backend stores the text and invokes interface.on_change.
UserTexts == {"", "typed"}

user_input(w, s) ==
    Log([w EXCEPT !.impl.value = s], [fn |-> "on_change", handler |-> w.on_change])

UserInput ==
    /\ constructed
    /\ ~widget.impl.readonly
    /\ \E s \in UserTexts :
         /\ s # widget.impl.value
         /\ widget' = user_input(Begin(widget), s)
         /\ lastOp' = [op |-> "user_input", s |-> s]
    /\ UNCHANGED <<constructed, mapVars, fixtureVars>>

\* The user scrolls the native widget.
UserScroll ==
    /\ constructed
    /\ widget.impl.scroll # "middle"
    /\ widget' = [Begin(widget) EXCEPT !.impl.scroll = "middle"]
    /\ lastOp' = [op |-> "user_scroll"]
    /\ UNCHANGED <<constructed, mapVars, fixtureVars>>

TextNext ==
    \/ Construct
    \/ SetValue
    \/ SetPlaceholder
    \/ SetReadonly
    \/ SetEnabled
    \/ SetOnChange
    \/ Clear
    \/ ScrollToBottom
    \/ ScrollToTop
    \/ UserInput
    \/ UserScroll

----------------------------------------------------------------------------
(* MapView, as test_mapview.py drives it.  The pins are those of the tests; *)
(* coordinates are in millionths of a degree.                               *)

Pins == {"fremantle", "lesmurdie", "joondalup", "stadium"}

\* toga.MapPin(location, title=..., subtitle=...); "None" is an omitted
\* subtitle.

PinAttr(p) ==
    CASE p = "fremantle" ->
           [location |-> <<-32054230, 115747630>>, title |-> "Fremantle",
            subtitle |-> "None"]
      [] p = "lesmurdie" ->
           [location |-> <<-31994000, 116050000>>, title |-> "lesmurdie",
            subtitle |-> "None"]
      [] p = "joondalup" ->
           [location |-> <<-31745000, 115766000>>, title |-> "Joondalup",
            subtitle |-> "None"]
      [] p = "stadium" ->
           [location |-> <<-31959850, 115879500>>, title |-> "WACA Ground",
            subtitle |-> "Old"]

\* the values test_add_pins assigns to a pin that is on the map
NewLocation == <<-31951111, 115889167>>
NewTitle == "Perth Stadium"
NewSubtitle == "New"

\* MapPinSet.add(pin): the pin joins widget.pins and the backend adds an
\* annotation for it.
pins_add(m, p) ==
    [m EXCEPT !.pins = @ \cup {p},
              !.native = [q \in DOMAIN @ \cup {p} |-> m.attr[q]]]

\* (variant: the backend keeps the annotation of a removed pin)
pins_remove_keeps_annotation(m, p) == [m EXCEPT !.pins = @ \ {p}]

\* MapPinSet.remove(pin): the pin leaves widget.pins and the backend removes
\* its annotation.
pins_remove(m, p) ==
    [m EXCEPT !.pins = @ \ {p},
              !.native = [q \in DOMAIN @ \ {p} |-> @[q]]]

\* MapPinSet.clear(): every pin is removed from the backend.
pins_clear(m) ==
    [m EXCEPT !.pins = {}, !.native = <<>>]

\* Assigning pin.location / pin.title / pin.subtitle: the pin's attribute
\* changes, and the backend updates the annotation of a pin that is on a map.
pin_update(m, p, field, v) ==
    LET a == [m.attr[p] EXCEPT ![field] = v] IN
    [m EXCEPT !.attr[p] = a,
              !.native = IF p \in DOMAIN @ THEN [@ EXCEPT ![p] = a] ELSE @]

\* probe.pin_count: the number of annotations on the native map.
pin_count(m) == Cardinality(DOMAIN m.native)

\* (variant: the selection event is delivered twice)
on_select_twice(calls, p) ==
    Append(Append(calls, [args |-> <<"widget">>, pin |-> p]),
           [args |-> <<"widget">>, pin |-> p])

\* Selecting an annotation of the native map: the backend calls
\* interface.on_select(pin=pin), and the wrapped handler passes the widget
\* as the positional argument.
on_select(calls, p) == Append(calls, [args |-> <<"widget">>, pin |-> p])

\* Mock.reset_mock()
reset_mock(calls) == <<>>

MaxCalls == 2

MapInit ==
    /\ map = [pins |-> {}, native |-> <<>>, attr |-> [p \in Pins |-> PinAttr(p)]]
    /\ mock_calls = <<>>
    /\ selected = "None"
    /\ mapOp = "create"

PinsAdd ==
    \E p \in Pins \ map.pins :
        /\ map' = pins_add(map, p)
        /\ mapOp' = "add"
        /\ UNCHANGED <<mock_calls, selected, textVars, fixtureVars>>

PinsRemove ==
    \E p \in map.pins :
        /\ map' = pins_remove(map, p)
        /\ mapOp' = "remove"
        /\ UNCHANGED <<mock_calls, selected, textVars, fixtureVars>>

PinsClear ==
    /\ map' = pins_clear(map)
    /\ mapOp' = "clear"
    /\ UNCHANGED <<mock_calls, selected, textVars, fixtureVars>>

SetPinLocation ==
    \E p \in Pins : \E v \in {PinAttr(p).location, NewLocation} :
        /\ map' = pin_update(map, p, "location", v)
        /\ mapOp' = "location"
        /\ UNCHANGED <<mock_calls, selected, textVars, fixtureVars>>

SetPinTitle ==
    \E p \in Pins : \E v \in {PinAttr(p).title, NewTitle} :
        /\ map' = pin_update(map, p, "title", v)
        /\ mapOp' = "title"
        /\ UNCHANGED <<mock_calls, selected, textVars, fixtureVars>>

SetPinSubtitle ==
    \E p \in Pins : \E v \in {PinAttr(p).subtitle, NewSubtitle} :
        /\ map' = pin_update(map, p, "subtitle", v)
        /\ mapOp' = "subtitle"
        /\ UNCHANGED <<mock_calls, selected, textVars, fixtureVars>>

SelectPin ==
    /\ Len(mock_calls) < MaxCalls
    /\ \E p \in map.pins :
        /\ mock_calls' = on_select(mock_calls, p)
        /\ selected' = p
        /\ mapOp' = "select"
        /\ UNCHANGED <<map, textVars, fixtureVars>>

ResetMock ==
    /\ mock_calls # <<>>
    /\ mock_calls' = reset_mock(mock_calls)
    /\ mapOp' = "reset_mock"
    /\ UNCHANGED <<map, selected, textVars, fixtureVars>>

----------------------------------------------------------------------------
(* The `widget` fixture of test_mapview.py.                                 *)

WINDOWS_INIT_TIMEOUT == 60

\* time() is counted in ticks of one asyncio.sleep(0.05): 20 ticks a second.
TicksPerSecond == 20

\* A sleep ends after 1..MaxSleepTicks ticks (a slow machine oversleeps).
MaxSleepTicks == 2

Platforms == {"android", "iOS", "linux", "macOS", "windows"}

\* The backends that are a WebView wearing a trenchcoat: they queue calls
\* in `backlog` until the web canvas has loaded, then set it to None.
WebViewBackends == {"linux", "windows"}

\* toga.MapView(...): the backend as it is right after construction.
new_backlog(pf) == IF pf \in WebViewBackends THEN "pending" ELSE "absent"

\* (variant: the loop gives up silently and the widget is handed over)
poll_yields_on_timeout(b, t, d) ==
    IF b # "None" THEN (IF t < d THEN "sleeping" ELSE "yielded")
    ELSE "yielded"

\* One pass of `while widget._impl.backlog is not None:`, up to the next
\* await, raise or yield.
poll(b, t, d) ==
    IF b # "None" THEN (IF t < d THEN "sleeping" ELSE "raised")
    ELSE "yielded"

FixtureIdle ==
    /\ platform = "macOS"
    /\ fpc = "idle"
    /\ now = 0
    /\ deadline = 0
    /\ backlog = "absent"
    /\ ready = "no"
    /\ gc_runs = 0

FixtureInit ==
    /\ platform \in Platforms
    /\ fpc = "start"
    /\ now = 0
    /\ deadline = 0
    /\ backlog = "absent"
    /\ ready = "no"
    /\ gc_runs = 0

\* Lines 34-47: collect garbage on linux, construct the widget, and on the
\* WebView platforms fix the deadline.
FixtureSetup ==
    /\ fpc = "start"
    /\ gc_runs' = IF platform = "linux" THEN gc_runs + 1 ELSE gc_runs
    /\ backlog' = new_backlog(platform)
    /\ IF platform \in {"linux", "windows"}
       THEN /\ deadline' = now + WINDOWS_INIT_TIMEOUT * TicksPerSecond
            /\ fpc' = "poll"
       ELSE /\ deadline' = deadline
            /\ fpc' = "yielded"
    /\ UNCHANGED <<platform, now, ready, textVars, mapVars>>

\* Lines 48-54: one test of the loop condition and what follows it.
Poll ==
    /\ fpc = "poll"
    /\ fpc' = poll(backlog, now, deadline)
    /\ UNCHANGED <<platform, now, deadline, backlog, ready, gc_runs,
                   textVars, mapVars>>

\* Line 50: asyncio.sleep(0.05) returns.
SleepDone ==
    /\ fpc = "sleeping"
    /\ \E d \in 1..MaxSleepTicks : now' = now + d
    /\ fpc' = "poll"
    /\ UNCHANGED <<platform, deadline, backlog, ready, gc_runs,
                   textVars, mapVars>>

\* The web canvas finishes loading: the backend sets backlog to None.
BackendReady ==
    /\ backlog = "pending"
    /\ backlog' = "None"
    /\ ready' = IF now < deadline THEN "in time" ELSE "late"
    /\ UNCHANGED <<platform, fpc, now, deadline, gc_runs, textVars, mapVars>>

\* Lines 56-61: after the test, collect garbage on linux.
FixtureTeardown ==
    /\ fpc = "yielded"
    /\ gc_runs' = IF platform = "linux" THEN gc_runs + 1 ELSE gc_runs
    /\ fpc' = "done"
    /\ UNCHANGED <<platform, now, deadline, backlog, ready, textVars, mapVars>>

----------------------------------------------------------------------------
vars == <<textVars, mapVars, fixtureVars>>

\* One MultilineTextInput.
Init == TextInit /\ MapInit /\ FixtureIdle
Next == TextNext
Spec == Init /\ [][Next]_vars

\* One MapView: pins are added, removed, moved and renamed.
PinInit == TextIdle /\ MapInit /\ FixtureIdle
PinNext ==
    \/ PinsAdd
    \/ PinsRemove
    \/ PinsClear
    \/ SetPinLocation
    \/ SetPinTitle
    \/ SetPinSubtitle
PinSpec == PinInit /\ [][PinNext]_vars

\* One MapView: pins are added, removed and selected.
SelectInit == TextIdle /\ MapInit /\ FixtureIdle
SelectNext ==
    \/ PinsAdd
    \/ PinsRemove
    \/ PinsClear
    \/ SelectPin
    \/ ResetMock
SelectSpec == SelectInit /\ [][SelectNext]_vars

\* One run of the `widget` fixture.  The event loop resumes a coroutine
\* that can run, so the fixture's own steps are weakly fair; nothing makes
\* the backend become ready.
FixtureStartInit == TextIdle /\ MapInit /\ FixtureInit
FixtureNext ==
    \/ FixtureSetup
    \/ Poll
    \/ SleepDone
    \/ BackendReady
    \/ FixtureTeardown
FixtureSpec ==
    /\ FixtureStartInit
    /\ [][FixtureNext]_vars
    /\ WF_vars(FixtureSetup)
    /\ WF_vars(Poll)
    /\ WF_vars(SleepDone)

----------------------------------------------------------------------------
(* Properties of MultilineTextInput.                                        *)

Setters == {"value", "placeholder", "readonly", "enabled"}
Programmatic ==
    Setters \cup {"__init__", "on_change", "clear", "scroll_to_top",
                  "scroll_to_bottom"}

Invoked(w, fn) == \E i \in 1..Len(w.calls) : w.calls[i].fn = fn

\* C1: after assigning x to `value` (resp. `placeholder`), reading the
\* property gives "" when x is None and str(x) otherwise, whatever
\* operations came before.
C1_TextCoercion ==
    /\ lastOp.op = "value" =>
         value_get(widget) = (IF lastOp.x = PyNone THEN "" ELSE str(lastOp.x))
    /\ lastOp.op = "placeholder" =>
         placeholder_get(widget) = (IF lastOp.x = PyNone THEN "" ELSE str(lastOp.x))
    /\ (lastOp.op = "value" /\ lastOp.x = PyInt(-MaxInt)) =>
         value_get(widget) = "-" \o NatToStr(MaxInt)
    /\ (lastOp.op = "placeholder" /\ lastOp.x = PyBool(FALSE)) =>
         placeholder_get(widget) = "False"

C1_Witness ==
    /\ lastOp = [op |-> "value", x |-> PyNone]
    /\ value_get(widget) = ""
    /\ placeholder_get(widget) = "7"
    /\ widget.impl.scroll = "bottom"

\* C2: `enabled` is always the negation of `readonly`; assigning
\* `enabled = b` makes readonly == not bool(b), and assigning
\* `readonly = b` makes enabled == not bool(b).
C2_EnabledIsNotReadonly ==
    /\ enabled_get(widget) = ~readonly_get(widget)
    /\ lastOp.op = "enabled" => readonly_get(widget) = ~bool(lastOp.x)
    /\ lastOp.op = "readonly" => enabled_get(widget) = ~bool(lastOp.x)

C2_Witness ==
    /\ lastOp = [op |-> "enabled", x |-> PyStr("False")]
    /\ enabled_get(widget)
    /\ ~readonly_get(widget)

\* C3: clear() leaves `value` equal to "" and `placeholder` as it was, so
\* that the placeholder is the text displayed afterwards.
C3_ClearKeepsPlaceholder ==
    [][lastOp'.op = "clear" =>
         /\ value_get(widget') = ""
         /\ placeholder_get(widget') = placeholder_get(widget)
         /\ displayed(widget') = placeholder_get(widget)]_vars

C3_Witness ==
    /\ lastOp.op = "clear"
    /\ value_get(widget) = ""
    /\ placeholder_get(widget) = "two\nlines"
    /\ displayed(widget) = "two\nlines"

\* C6: assigning `value` or calling clear() while readonly is True takes
\* effect: the value read back is the coerced string assigned, and readonly
\* is still True.
C6_ReadonlyAllowsProgrammaticChange ==
    [][(readonly_get(widget) /\ lastOp'.op \in {"value", "clear"}) =>
         /\ readonly_get(widget')
         /\ value_get(widget') =
              (IF lastOp'.op = "clear" \/ lastOp'.x = PyNone THEN ""
               ELSE str(lastOp'.x))]_vars

C6_Witness ==
    /\ lastOp = [op |-> "value", x |-> PyInt(7)]
    /\ readonly_get(widget)
    /\ value_get(widget) = "7"

\* C7: no programmatic operation (the constructor, the property setters,
\* clear and the scroll methods) invokes the on_change handler.
C7_OnChangeOnlyOnUserInput ==
    lastOp.op \in Programmatic => ~Invoked(widget, "on_change")

C7_Witness ==
    /\ lastOp = [op |-> "value", x |-> PyStr("a")]
    /\ on_change_get(widget) = wrapped_handler([t |-> "fn", name |-> "on_change_1"])
    /\ value_get(widget) = "a"
    /\ ~Invoked(widget, "on_change")

\* C9 as stated: every property setter (value, placeholder, readonly,
\* enabled) makes exactly one backend set call carrying the coerced value
\* and then one refresh.
C9_EverySetterRefreshes ==
    /\ lastOp.op = "value" =>
         widget.calls = <<[fn |-> "set_value", s |-> coerce_text(lastOp.x)],
                          [fn |-> "refresh"]>>
    /\ lastOp.op = "placeholder" =>
         widget.calls = <<[fn |-> "set_placeholder", s |-> coerce_text(lastOp.x)],
                          [fn |-> "refresh"]>>
    /\ lastOp.op = "readonly" =>
         widget.calls = <<[fn |-> "set_readonly", b |-> bool(lastOp.x)],
                          [fn |-> "refresh"]>>
    /\ lastOp.op = "enabled" =>
         widget.calls = <<[fn |-> "set_readonly", b |-> ~bool(lastOp.x)],
                          [fn |-> "refresh"]>>

\* C9, amended: the `value` and `placeholder` setters make exactly one
\* backend set call carrying the coerced string and then one refresh; the
\* `readonly` and `enabled` setters make exactly one set_readonly call
\* carrying the coerced boolean and no refresh.
C9_SetterCalls ==
    /\ lastOp.op = "value" =>
         widget.calls = <<[fn |-> "set_value", s |-> coerce_text(lastOp.x)],
                          [fn |-> "refresh"]>>
    /\ lastOp.op = "placeholder" =>
         widget.calls = <<[fn |-> "set_placeholder", s |-> coerce_text(lastOp.x)],
                          [fn |-> "refresh"]>>
    /\ lastOp.op = "readonly" =>
         widget.calls = <<[fn |-> "set_readonly", b |-> bool(lastOp.x)]>>
    /\ lastOp.op = "enabled" =>
         widget.calls = <<[fn |-> "set_readonly", b |-> ~bool(lastOp.x)]>>

C9_Witness ==
    /\ lastOp = [op |-> "readonly", x |-> PyInt(0)]
    /\ widget.calls = <<[fn |-> "set_readonly", b |-> FALSE]>>

\* C10: each mutating operation changes only its own backend attribute, and
\* a freshly constructed widget reports the coerced constructor arguments.
C10_FrameConditions ==
    [][/\ lastOp'.op \in {"value", "clear"} =>
            /\ placeholder_get(widget') = placeholder_get(widget)
            /\ readonly_get(widget') = readonly_get(widget)
       /\ lastOp'.op = "placeholder" =>
            /\ value_get(widget') = value_get(widget)
            /\ readonly_get(widget') = readonly_get(widget)
       /\ lastOp'.op \in {"readonly", "enabled"} =>
            /\ value_get(widget') = value_get(widget)
            /\ placeholder_get(widget') = placeholder_get(widget)
       /\ lastOp'.op \in {"scroll_to_top", "scroll_to_bottom"} =>
            /\ value_get(widget') = value_get(widget)
            /\ placeholder_get(widget') = placeholder_get(widget)
            /\ readonly_get(widget') = readonly_get(widget)
       /\ lastOp'.op = "__init__" =>
            /\ value_get(widget') =
                 (IF lastOp'.value = PyNone THEN "" ELSE str(lastOp'.value))
            /\ placeholder_get(widget') =
                 (IF lastOp'.placeholder = PyNone THEN ""
                  ELSE str(lastOp'.placeholder))
            /\ readonly_get(widget') = bool(lastOp'.readonly)
            /\ enabled_get(widget') = ~bool(lastOp'.readonly)]_vars

\* the constructor's defaults: value=None, readonly=False, placeholder=None
C10_Witness ==
    /\ lastOp = [op |-> "__init__", value |-> PyNone, readonly |-> PyBool(FALSE),
                 placeholder |-> PyNone, on_change |-> PyNone]
    /\ value_get(widget) = ""
    /\ placeholder_get(widget) = ""
    /\ ~readonly_get(widget)
    /\ enabled_get(widget)

----------------------------------------------------------------------------
(* Properties of MapView and of its test fixture.                           *)

\* C4: the pin count seen by the probe equals the number of pins in
\* widget.pins: it starts at 0, adding a pin that is not on the map raises
\* it by one, removing a pin lowers it by one, clear() makes it 0, and
\* changing a pin's location, title or subtitle leaves it as it was.
C4_PinCount ==
    /\ pin_count(map) = 0
    /\ [][/\ pin_count(map') = Cardinality(map'.pins)
          /\ mapOp' = "add" => pin_count(map') = pin_count(map) + 1
          /\ mapOp' = "remove" => pin_count(map') = pin_count(map) - 1
          /\ mapOp' = "clear" => pin_count(map') = 0
          /\ mapOp' \in {"location", "title", "subtitle"} =>
               pin_count(map') = pin_count(map)]_vars

\* test_add_pins, line 135: the stadium was moved, renamed and removed
C4_Witness ==
    /\ mapOp = "remove"
    /\ map.pins = Pins \ {"stadium"}
    /\ map.attr["stadium"] =
         [location |-> NewLocation, title |-> NewTitle, subtitle |-> NewSubtitle]
    /\ pin_count(map) = 3

\* C5: each selection of a pin p on the map makes exactly one on_select
\* call, with the widget as positional argument and pin=p; adding, removing
\* and clearing pins makes none.
C5_SelectCallsHandlerOnce ==
    [][/\ mapOp' = "select" =>
            /\ selected' \in map.pins
            /\ mock_calls' =
                 Append(mock_calls, [args |-> <<"widget">>, pin |-> selected'])
       /\ mapOp' \in {"add", "remove", "clear"} => mock_calls' = mock_calls]_vars

\* test_select_pin, line 155: lesmurdie is selected among three pins
C5_Witness ==
    /\ mapOp = "select"
    /\ selected = "lesmurdie"
    /\ map.pins = {"joondalup", "lesmurdie", "fremantle"}
    /\ mock_calls = <<[args |-> <<"widget">>, pin |-> "lesmurdie"]>>

Polled == {"linux", "windows"}
Yielded == fpc \in {"yielded", "done"}

\* C8: on linux and windows the fixture yields the widget only when the
\* backlog is None; the deadline is 60 s after the poll starts; a poll that
\* finds the backlog not None at or after the deadline raises instead of
\* yielding; and if the backlog becomes None before the deadline the
\* fixture never raises and does yield.
C8_FixtureReadiness ==
    /\ []((platform \in Polled /\ Yielded) => backlog = "None")
    /\ []((platform \in Polled /\ fpc # "start") =>
            deadline = WINDOWS_INIT_TIMEOUT * TicksPerSecond)
    /\ [](fpc = "raised" =>
            /\ platform \in Polled
            /\ now >= deadline
            /\ ready # "in time")
    /\ [][(fpc = "poll" /\ backlog # "None" /\ now >= deadline /\ fpc' # fpc)
            => fpc' = "raised"]_vars
    /\ ((ready = "in time") ~> Yielded)

\* the backlog became None during the poll, and the widget was yielded
C8_Witness ==
    /\ platform = "windows"
    /\ fpc = "yielded"
    /\ ready = "in time"
    /\ now > 0
    /\ backlog = "None"

====
